---- MODULE Spec2Model ----
(***************************************************************************)
(* Mesh viewer: the explosion state machine of explosion_effect.h, the     *)
(* Mesh class of mesh.h and the driver of main.cpp.                        *)
(*                                                                         *)
(* Floats are fixed-point integers: the real number 1.0 is Unit ticks.     *)
(* Coordinates, normals, factors and frame times are all in ticks; a       *)
(* product of two fixed-point numbers is divided by Unit and every         *)
(* division rounds to the nearest tick, as a float operation rounds to the *)
(* nearest representable value.                                            *)
(***************************************************************************)
EXTENDS Integers, Sequences, FiniteSets, TLC

\* Resolution of the fixed-point representation: ticks per 1.0.
Unit == 10
\* Releases of a snapshot while its model is displaced: each one moves the
\* baseline outward, so the harness stops issuing them after this many.
MaxDrift == 1

\* The null OffModel pointer and the model identities (addresses).
NULL == 0
Models == {1, 2}

------------------------------------------------------------------------------
(* Fixed-point arithmetic and glm::vec3                                      *)

\* a / b rounded to the nearest tick (b > 0).
RoundDiv(a, b) == (2 * a + b) \div (2 * b)

\* a * b for two fixed-point numbers.
FMul(a, b) == RoundDiv(a * b, Unit)

\* Bisection for the square root: lo * lo <= n < (hi + 1) * (hi + 1).
RECURSIVE SqrtBetween(_, _, _)
SqrtBetween(n, lo, hi) ==
    IF lo = hi THEN lo
    ELSE LET mid == (lo + hi + 1) \div 2
         IN  IF mid * mid <= n THEN SqrtBetween(n, mid, hi)
                               ELSE SqrtBetween(n, lo, mid - 1)

\* floor(sqrt(n)) for 0 <= n < 2^31.
ISqrt(n) == SqrtBetween(n, 0, IF n < 46340 THEN n ELSE 46340)

\* The float NaN, as a number no coordinate reaches, and the vector
\* glm::normalize returns for the zero vector: NaN in every component.
NaN == -100000
NaN3 == <<NaN, NaN, NaN>>
IsNaN3(a) == a[1] = NaN \/ a[2] = NaN \/ a[3] = NaN

Zero3 == <<0, 0, 0>>

\* a + b; NaN in either operand gives NaN.
Add3(a, b) ==
    IF IsNaN3(a) \/ IsNaN3(b) THEN NaN3
    ELSE <<a[1] + b[1], a[2] + b[2], a[3] + b[3]>>
Sub3(a, b) == <<a[1] - b[1], a[2] - b[2], a[3] - b[3]>>
Dot3(a, b) == a[1] * b[1] + a[2] * b[2] + a[3] * b[3]
Scale3(a, f) == <<FMul(a[1], f), FMul(a[2], f), FMul(a[3], f)>>
DivScalar3(a, n) == <<RoundDiv(a[1], n), RoundDiv(a[2], n), RoundDiv(a[3], n)>>

\* glm::cross of two fixed-point vectors.
Cross3(a, b) ==
    << RoundDiv(a[2] * b[3] - a[3] * b[2], Unit),
       RoundDiv(a[3] * b[1] - a[1] * b[3], Unit),
       RoundDiv(a[1] * b[2] - a[2] * b[1], Unit) >>

\* glm::length in ticks; the length of a NaN vector is NaN.
Length3(a) == IF IsNaN3(a) THEN NaN ELSE ISqrt(Dot3(a, a))

\* glm::normalize: a * inversesqrt(dot(a, a)); the square root is taken at
\* a resolution of Unit * Unit per 1.0 so that short vectors keep a direction.
\* For the zero vector inversesqrt gives infinity and 0 * infinity is NaN in
\* every component.
Normalize3(a) ==
    IF IsNaN3(a) \/ a = Zero3 THEN NaN3
    ELSE LET len == ISqrt(Dot3(a, a) * Unit * Unit)
         IN  << RoundDiv(a[1] * Unit * Unit, len),
                RoundDiv(a[2] * Unit * Unit, len),
                RoundDiv(a[3] * Unit * Unit, len) >>

------------------------------------------------------------------------------
(* Input meshes: what readOffFile delivers for the files the viewer loads.   *)
(* Vertex coordinates are in ticks, polygon entries are 0-based vertex       *)
(* indices, as in the OFF format.                                            *)

\* A triangle fan around a vertex that sits exactly at the mean of all four.
FanMesh ==
    [ vertices |-> << <<0, 0, 0>>, <<6, 0, 0>>, <<-3, 6, 0>>, <<-3, -6, 0>> >>,
      polygons |-> << <<0, 1, 2>>, <<0, 2, 3>>, <<0, 3, 1>> >> ]

\* A tetrahedron with four triangular faces.
TetraMesh ==
    [ vertices |-> << <<0, 0, 0>>, <<8, 0, 0>>, <<0, 8, 0>>, <<0, 0, 8>> >>,
      polygons |-> << <<0, 2, 1>>, <<0, 1, 3>>, <<0, 3, 2>>, <<1, 2, 3>> >> ]

\* One square face.
QuadMesh ==
    [ vertices |-> << <<-4, -4, 0>>, <<4, -4, 0>>, <<4, 4, 0>>, <<-4, 4, 0>> >>,
      polygons |-> << <<0, 1, 2, 3>> >> ]

Meshes == {FanMesh, TetraMesh, QuadMesh}

\* An OFF file: whether it can be opened, the two counts of its header line,
\* and the vertex lines and polygon lines that follow.
OffFile(mesh) ==
    [ exists |-> TRUE,
      numberOfVertices |-> Len(mesh.vertices),
      numberOfPolygons |-> Len(mesh.polygons),
      vertices |-> mesh.vertices,
      polygons |-> mesh.polygons ]

\* A path at which there is no file.
MissingFile == [OffFile(QuadMesh) EXCEPT !.exists = FALSE]

\* The tetrahedron's file cut off before its last polygon line.
TruncatedFile ==
    [OffFile(TetraMesh) EXCEPT
        !.polygons = SubSeq(@, 1, Len(TetraMesh.polygons) - 1)]

\* The files the viewer is started on.
ViewerFiles == {OffFile(mesh) : mesh \in Meshes} \cup {MissingFile, TruncatedFile}

\* readOffFile returns null: no file, or not the vertex lines and polygon
\* lines its header announces.
readOffFileFails(file) ==
    \/ ~file.exists
    \/ Len(file.vertices) # file.numberOfVertices
    \/ Len(file.polygons) # file.numberOfPolygons

\* The OffModel readOffFile returns otherwise: the vertices and polygons as
\* the file lists them.
readOffFile(file) == [vertices |-> file.vertices, polygons |-> file.polygons]

------------------------------------------------------------------------------
(* class Mesh (mesh.h)                                                       *)

\* 0.0001f, the length below which a vector is not normalized, as 1/EpsilonInv.
EpsilonInv == 10000

\* glm::length(v) > 0.0001f, for a length in ticks; false for NaN, as every
\* comparison with NaN is.
AboveEpsilon(len) == len # NaN /\ len * EpsilonInv > Unit

\* The inner loop emitting a strip instead of a fan: v[j - 1], v[j], v[j + 1].
RECURSIVE StripTriangles(_, _)
StripTriangles(v, j) ==
    IF j < Len(v) - 1
    THEN <<v[j], v[j + 1], v[j + 2]>> \o StripTriangles(v, j + 1)
    ELSE <<>>

\* The inner loop of the constructor: j = 1 .. noSides - 2 pushes
\* v[0], v[j], v[j + 1].
RECURSIVE FanTriangles(_, _)
FanTriangles(v, j) ==
    IF j < Len(v) - 1
    THEN <<v[1], v[j + 1], v[j + 2]>> \o FanTriangles(v, j + 1)
    ELSE <<>>

\* The outer loop of the constructor over offModel->polygons.
RECURSIVE Triangulate(_, _)
Triangulate(polygons, i) ==
    IF i <= Len(polygons)
    THEN FanTriangles(polygons[i], 1) \o Triangulate(polygons, i + 1)
    ELSE <<>>

\* Mesh::calculateNormals adding the cross product as it is, without
\* normalizing it first.
RECURSIVE AddFaceNormalsUnnormalized(_, _, _, _)
AddFaceNormalsUnnormalized(position, indices, i, normal) ==
    IF i + 2 <= Len(indices)
    THEN LET idx1 == indices[i] + 1
             idx2 == indices[i + 1] + 1
             idx3 == indices[i + 2] + 1
             edge1 == Sub3(position[idx2], position[idx1])
             edge2 == Sub3(position[idx3], position[idx1])
             faceNormal == Cross3(edge1, edge2)
             n1 == [normal EXCEPT ![idx1] = Add3(@, faceNormal)]
             n2 == [n1 EXCEPT ![idx2] = Add3(@, faceNormal)]
             n3 == [n2 EXCEPT ![idx3] = Add3(@, faceNormal)]
         IN  AddFaceNormalsUnnormalized(position, indices, i + 3, n3)
    ELSE normal

\* Mesh::calculateNormals, second loop: one triangle per step, its
\* normalized face normal added to its three vertices.
RECURSIVE AddFaceNormals(_, _, _, _)
AddFaceNormals(position, indices, i, normal) ==
    IF i + 2 <= Len(indices)
    THEN LET idx1 == indices[i] + 1
             idx2 == indices[i + 1] + 1
             idx3 == indices[i + 2] + 1
             edge1 == Sub3(position[idx2], position[idx1])
             edge2 == Sub3(position[idx3], position[idx1])
             faceNormal == Normalize3(Cross3(edge1, edge2))
             n1 == [normal EXCEPT ![idx1] = Add3(@, faceNormal)]
             n2 == [n1 EXCEPT ![idx2] = Add3(@, faceNormal)]
             n3 == [n2 EXCEPT ![idx3] = Add3(@, faceNormal)]
         IN  AddFaceNormals(position, indices, i + 3, n3)
    ELSE normal

\* Mesh::calculateNormals: the normals of Mesh::vertices, from their positions.
calculateNormals(position, indices) ==
    LET zero == [i \in 1..Len(position) |-> Zero3]
        sum == AddFaceNormals(position, indices, 1, zero)
    IN  [i \in 1..Len(position) |->
            IF AboveEpsilon(Length3(sum[i])) THEN Normalize3(sum[i]) ELSE sum[i]]

\* A Mesh constructor without the null check on what readOffFile returned.
MeshThrowsNever(file) == FALSE

\* Mesh::Mesh: if (!offModel) throw std::runtime_error(...)
MeshThrows(file) == readOffFileFails(file)

\* Mesh::Mesh after a successful readOffFile: Mesh::vertices and Mesh::indices.
MeshOf(off) ==
    LET indices == Triangulate(off.polygons, 1)
        normal == calculateNormals(off.vertices, indices)
    IN  [ vertices |-> [i \in 1..Len(off.vertices) |->
                           [position |-> off.vertices[i], normal |-> normal[i]]],
          indices |-> indices ]

------------------------------------------------------------------------------
(* OFFReader.h: computeNormals                                               *)

\* One triangle of a polygon fan: the unnormalized cross product of its two
\* edges is added to the normals of its three vertices.
RECURSIVE AddCrossProducts(_, _, _, _)
AddCrossProducts(position, indices, i, normal) ==
    IF i + 2 <= Len(indices)
    THEN LET a == indices[i] + 1
             b == indices[i + 1] + 1
             c == indices[i + 2] + 1
             face == Cross3(Sub3(position[b], position[a]),
                            Sub3(position[c], position[a]))
             n1 == [normal EXCEPT ![a] = Add3(@, face)]
             n2 == [n1 EXCEPT ![b] = Add3(@, face)]
             n3 == [n2 EXCEPT ![c] = Add3(@, face)]
         IN  AddCrossProducts(position, indices, i + 3, n3)
    ELSE normal

\* The per-vertex normals of a model, recomputed from its current positions.
computeNormals(position, polygons) ==
    LET zero == [i \in 1..Len(position) |-> Zero3]
        sum == AddCrossProducts(position, Triangulate(polygons, 1), 1, zero)
    IN  [i \in 1..Len(position) |->
            IF AboveEpsilon(Length3(sum[i])) THEN Normalize3(sum[i]) ELSE Zero3]

------------------------------------------------------------------------------
(* State                                                                     *)

VARIABLES
    offModels,         \* live OffModel objects: address -> [position, normal, polygons]
    meshes,            \* the Mesh owning each live OffModel: address -> [vertices, indices]
    explodedModels,    \* explosion_effect.h: the snapshot map, address -> baseline positions
    offModel,          \* main.cpp: the global OffModel pointer of the driver
    explodeFactor,     \* main.cpp: explodeFactor, in ticks
    explodeAnimation,  \* main.cpp: explodeAnimation
    explodeDirection,  \* main.cpp: explodeDirection, +1 or -1
    showImGuiWindow,   \* main.cpp: showImGuiWindow
    vbo,               \* the vertex data last uploaded to the GPU buffer
    pc,                \* position of main()
    call,              \* history: the last explosion API call and what it found
    captured,          \* history: per snapshot, the positions its model had when it was created
    released,          \* history: per model, its positions when its snapshot was last released while displaced
    drift,             \* history: snapshots released while their model was displaced
    input,             \* history: per model, the vertex coordinates read from its file
    opened             \* history: the files the Mesh constructor has handed to readOffFile

apiVars == <<offModels, meshes, explodedModels>>
driverVars == <<offModel, explodeFactor, explodeAnimation, explodeDirection,
                showImGuiWindow, vbo, pc>>
vars == <<offModels, meshes, explodedModels, offModel, explodeFactor,
          explodeAnimation, explodeDirection, showImGuiWindow, vbo, pc, call,
          captured, released, drift, input, opened>>

\* The heap the explosion functions read and write.
Heap == [explodedModels |-> explodedModels, offModels |-> offModels]

\* std::map: m[key] = value.
MapPut(map, key, value) ==
    [k \in DOMAIN map \cup {key} |-> IF k = key THEN value ELSE map[k]]

\* std::map::erase(key).
MapErase(map, key) == [k \in DOMAIN map \ {key} |-> map[k]]

\* std::map::clear().
EmptyMap == [k \in {} |-> <<>>]

\* readOffFile followed by the Mesh constructor's calculateNormals, which
\* writes the normals it normalized back into the OffModel.
LoadedOffModel(off) ==
    [ position |-> off.vertices,
      normal |-> [i \in 1..Len(off.vertices) |-> MeshOf(off).vertices[i].normal],
      polygons |-> off.polygons ]

------------------------------------------------------------------------------
(* explosion_effect.h                                                        *)

\* initializeExplosion without the "already initialized" check.
initializeExplosionAgain(h, model) ==
    IF model = NULL THEN h
    ELSE [h EXCEPT !.explodedModels =
             MapPut(@, model, h.offModels[model].position)]

\* initializeExplosion without the null check: the map gets an entry for the
\* null key.
initializeExplosionNoNullCheck(h, model) ==
    IF model \in DOMAIN h.explodedModels THEN h
    ELSE [h EXCEPT !.explodedModels =
             MapPut(@, model, IF model = NULL THEN <<>>
                              ELSE h.offModels[model].position)]

\* initializeExplosion whose copy loop stops one vertex early.
initializeExplosionShort(h, model) ==
    IF model = NULL THEN h
    ELSE IF model \in DOMAIN h.explodedModels THEN h
    ELSE [h EXCEPT !.explodedModels =
             MapPut(@, model, SubSeq(h.offModels[model].position, 1,
                                     Len(h.offModels[model].position) - 1))]

\* void initializeExplosion(OffModel* model)
initializeExplosion(h, model) ==
    IF model = NULL THEN h
    ELSE IF model \in DOMAIN h.explodedModels THEN h
    ELSE [h EXCEPT !.explodedModels =
             MapPut(@, model, h.offModels[model].position)]

\* updateExplosion, first loop: the sum of the original positions.
RECURSIVE SumOriginal(_, _)
SumOriginal(originalVertices, i) ==
    IF i <= Len(originalVertices)
    THEN Add3(originalVertices[i], SumOriginal(originalVertices, i + 1))
    ELSE Zero3

\* updateExplosion: center of the model.
Center(originalVertices) ==
    DivScalar3(SumOriginal(originalVertices, 1), Len(originalVertices))

\* The direction without its fallback: a direction too short to normalize is
\* used as it is.
DirectionNoDefault(orig, center) ==
    LET direction == Sub3(orig, center)
        distance == Length3(direction)
    IN  IF AboveEpsilon(distance) THEN Normalize3(direction) ELSE direction

\* updateExplosion: the direction from the center to one original vertex,
\* normalized unless it is too short.
Direction(orig, center) ==
    LET direction == Sub3(orig, center)
        distance == Length3(direction)
    IN  IF AboveEpsilon(distance) THEN Normalize3(direction) ELSE <<0, Unit, 0>>

\* updateExplosion displacing each vertex from where it is now.
ExplodedPositionsFromCurrent(originalVertices, current, factor) ==
    LET center == Center(originalVertices)
    IN  [i \in 1..Len(current) |->
            Add3(current[i], Scale3(Direction(originalVertices[i], center), factor))]

\* updateExplosion measuring the displacement from the explosion center
\* instead of from the vertex's original position.
ExplodedPositionsFromCenter(originalVertices, current, factor) ==
    LET center == Center(originalVertices)
    IN  [i \in 1..Len(current) |->
            Add3(center, Scale3(Direction(originalVertices[i], center), factor))]

\* updateExplosion taking the explosion center from the positions it finds
\* instead of from the snapshot.
ExplodedPositionsCurrentCenter(originalVertices, current, factor) ==
    LET center == Center(current)
    IN  [i \in 1..Len(current) |->
            Add3(originalVertices[i],
                 Scale3(Direction(originalVertices[i], center), factor))]

\* updateExplosion, second loop: every vertex set to its original position
\* plus direction * factor.
ExplodedPositions(originalVertices, current, factor) ==
    LET center == Center(originalVertices)
    IN  [i \in 1..Len(current) |->
            Add3(originalVertices[i],
                 Scale3(Direction(originalVertices[i], center), factor))]

\* updateExplosion calling computeNormals before its position loop: the
\* normals it leaves are those of the positions it found.
updateExplosionNormalsFirst(h, model, factor) ==
    IF model = NULL THEN h
    ELSE IF model \notin DOMAIN h.explodedModels THEN initializeExplosion(h, model)
    ELSE LET position == ExplodedPositions(h.explodedModels[model],
                                           h.offModels[model].position, factor)
         IN  [h EXCEPT !.offModels[model].position = position,
                       !.offModels[model].normal =
                           computeNormals(h.offModels[model].position,
                                          h.offModels[model].polygons)]

\* updateExplosion that goes on to displace after initializing.
updateExplosionNoReturn(h, model, factor) ==
    IF model = NULL THEN h
    ELSE LET h1 == initializeExplosion(h, model)
             position == ExplodedPositions(h1.explodedModels[model],
                                           h1.offModels[model].position, factor)
         IN  [h1 EXCEPT !.offModels[model].position = position,
                        !.offModels[model].normal =
                            computeNormals(position, h1.offModels[model].polygons)]

\* void updateExplosion(OffModel* model, float factor)
updateExplosion(h, model, factor) ==
    IF model = NULL THEN h
    ELSE IF model \notin DOMAIN h.explodedModels THEN initializeExplosion(h, model)
    ELSE LET position == ExplodedPositions(h.explodedModels[model],
                                           h.offModels[model].position, factor)
         IN  [h EXCEPT !.offModels[model].position = position,
                       !.offModels[model].normal =
                           computeNormals(position, h.offModels[model].polygons)]

\* resetExplosion whose loop starts at vertex 1 instead of vertex 0.
RestoredPositionsSkipFirst(originalVertices, current) ==
    [i \in 1..Len(current) |-> IF i = 1 THEN current[i] ELSE originalVertices[i]]

\* resetExplosion undoing a full displacement instead of copying the snapshot:
\* every vertex moved back by its direction * 1.0.
RestoredPositionsBySubtracting(originalVertices, current) ==
    LET center == Center(originalVertices)
    IN  [i \in 1..Len(current) |->
            Sub3(current[i], Scale3(Direction(originalVertices[i], center), Unit))]

\* resetExplosion, the loop: every vertex set to its original position.
RestoredPositions(originalVertices, current) ==
    [i \in 1..Len(current) |-> originalVertices[i]]

\* resetExplosion without the "is initialized" check: operator[] inserts an
\* entry for the model, here with the positions it finds.
resetExplosionNoCheck(h, model) ==
    IF model = NULL THEN h
    ELSE initializeExplosion(h, model)

\* void resetExplosion(OffModel* model)
resetExplosion(h, model) ==
    IF model = NULL THEN h
    ELSE IF model \notin DOMAIN h.explodedModels THEN h
    ELSE LET position == RestoredPositions(h.explodedModels[model],
                                           h.offModels[model].position)
         IN  [h EXCEPT !.offModels[model].position = position,
                       !.offModels[model].normal =
                           computeNormals(position, h.offModels[model].polygons)]

\* cleanupExplosionData that puts the model back before erasing its snapshot.
cleanupExplosionDataRestoring(h, model) ==
    [resetExplosion(h, model) EXCEPT !.explodedModels = MapErase(@, model)]

\* cleanupExplosionData emptying the whole store instead of erasing one key.
cleanupExplosionDataClearing(h, model) ==
    IF model \in DOMAIN h.explodedModels
    THEN [h EXCEPT !.explodedModels = EmptyMap]
    ELSE h

\* void cleanupExplosionData(OffModel* model)
cleanupExplosionData(h, model) ==
    IF model \in DOMAIN h.explodedModels
    THEN [h EXCEPT !.explodedModels = MapErase(@, model)]
    ELSE h

\* void cleanupAllExplosionData()
cleanupAllExplosionData(h) == [h EXCEPT !.explodedModels = EmptyMap]

------------------------------------------------------------------------------
(* The API harness: any caller of explosion_effect.h                         *)

\* Pointers a caller can pass, and the factors it passes: 0.0, 0.5 and 1.0.
ModelPtrs == Models \cup {NULL}
Factors == {0, Unit \div 2, Unit}

NoCall == [op |-> "none", model |-> NULL, factor |-> 0, had |-> FALSE, before |-> <<>>]

\* The record of one call made on heap h: the operation, its arguments,
\* whether the model had a snapshot and where its vertices were.
CallIn(h, op, model, factor) ==
    [ op |-> op, model |-> model, factor |-> factor,
      had |-> model \in DOMAIN h.explodedModels,
      before |-> IF model \in DOMAIN h.offModels
                 THEN h.offModels[model].position ELSE <<>> ]

CallOf(op, model, factor) == CallIn(Heap, op, model, factor)

\* A model whose vertices are away from its snapshot.
DisplacedIn(h, model) ==
    /\ model \in DOMAIN h.explodedModels
    /\ model \in DOMAIN h.offModels
    /\ h.offModels[model].position # h.explodedModels[model]

Displaced(model) == DisplacedIn(Heap, model)

\* The heap after a call that found heap h0 and left heap h, and the history
\* of the snapshots made and released.
CommitFrom(h0, h) ==
    /\ explodedModels' = h.explodedModels
    /\ offModels' = h.offModels
    /\ captured' = [m \in DOMAIN h.explodedModels |->
                       IF m \in DOMAIN h0.explodedModels THEN captured[m]
                       ELSE IF m \in DOMAIN h0.offModels THEN h0.offModels[m].position
                       ELSE <<>>]
    /\ LET gone == {m \in Models : DisplacedIn(h0, m) /\ m \notin DOMAIN h.explodedModels}
       IN  released' = [m \in DOMAIN released \cup gone |->
                           IF m \in gone THEN h0.offModels[m].position ELSE released[m]]

Commit(h) == CommitFrom(Heap, h)

Init ==
    /\ \E file \in [Models -> Meshes] :
          /\ offModels = [m \in Models |-> LoadedOffModel(file[m])]
          /\ meshes = [m \in Models |-> MeshOf(file[m])]
          /\ input = [m \in Models |-> file[m].vertices]
    /\ explodedModels = EmptyMap
    /\ offModel = NULL
    /\ explodeFactor = 0
    /\ explodeAnimation = FALSE
    /\ explodeDirection = 1
    /\ showImGuiWindow = TRUE
    /\ vbo = <<>>
    /\ pc = "api"
    /\ call = NoCall
    /\ captured = EmptyMap
    /\ released = EmptyMap
    /\ drift = 0
    /\ opened = <<>>

InitializeExplosion(model) ==
    /\ Commit(initializeExplosion(Heap, model))
    /\ call' = CallOf("initialize", model, 0)
    /\ UNCHANGED <<meshes, driverVars, drift, input, opened>>

UpdateExplosion(model, factor) ==
    /\ Commit(updateExplosion(Heap, model, factor))
    /\ call' = CallOf("update", model, factor)
    /\ UNCHANGED <<meshes, driverVars, drift, input, opened>>

ResetExplosion(model) ==
    /\ Commit(resetExplosion(Heap, model))
    /\ call' = CallOf("reset", model, 0)
    /\ UNCHANGED <<meshes, driverVars, drift, input, opened>>

CleanupExplosionData(model) ==
    /\ Displaced(model) => drift < MaxDrift
    /\ Commit(cleanupExplosionData(Heap, model))
    /\ call' = CallOf("cleanup", model, 0)
    /\ drift' = IF Displaced(model) THEN drift + 1 ELSE drift
    /\ UNCHANGED <<meshes, driverVars, input, opened>>

CleanupAllExplosionData ==
    LET displaced == {m \in Models : Displaced(m)}
    IN  /\ drift + Cardinality(displaced) <= MaxDrift
        /\ Commit(cleanupAllExplosionData(Heap))
        /\ call' = CallOf("cleanupAll", NULL, 0)
        /\ drift' = drift + Cardinality(displaced)
        /\ UNCHANGED <<meshes, driverVars, input, opened>>

Next ==
    \/ \E model \in ModelPtrs : InitializeExplosion(model)
    \/ \E model \in ModelPtrs, factor \in Factors : UpdateExplosion(model, factor)
    \/ \E model \in ModelPtrs : ResetExplosion(model)
    \/ \E model \in ModelPtrs : CleanupExplosionData(model)
    \/ CleanupAllExplosionData

Spec == Init /\ [][Next]_vars

------------------------------------------------------------------------------
(* Properties of the explosion API                                           *)

\* The model the last call was made on, when it is a live model.
OnModel == call.model # NULL /\ call.model \in DOMAIN offModels

Position(model) == offModels[model].position

\* The original input coordinates of a model.
InputPosition(model) == input[model]

\* The positions held by Mesh::vertices of the Mesh that owns a model.
MeshPosition(model) ==
    [i \in 1..Len(meshes[model].vertices) |-> meshes[model].vertices[i].position]

\* baseline + dir * factor for every vertex, dir being the unit vector from
\* the mean of the baseline to the vertex, or (0, 1, 0) for a vertex the
\* mean falls on.
DisplacedFrom(baseline, factor) ==
    LET origin == Center(baseline)
        dir(i) == IF AboveEpsilon(Length3(Sub3(baseline[i], origin)))
                  THEN Normalize3(Sub3(baseline[i], origin))
                  ELSE <<0, Unit, 0>>
    IN  [i \in 1..Len(baseline) |-> Add3(baseline[i], Scale3(dir(i), factor))]

\* Every direction of the displacement has length 1.0 within one tick.
UnitDirections(baseline) ==
    \A i \in 1..Len(baseline) :
        LET len == Length3(Direction(baseline[i], Center(baseline)))
        IN  Unit - 1 <= len /\ len <= Unit + 1

\* C1: after resetExplosion on a model that has a snapshot, every vertex is at
\* the position it had when the snapshot was created.
C1_ResetRestoresBaseline ==
    (call.op = "reset" /\ OnModel /\ call.had)
        => Position(call.model) = captured[call.model]

\* C1 witness: a reset moved a displaced model back to the input coordinates.
C1_Witness ==
    /\ call.op = "reset" /\ OnModel /\ call.had
    /\ call.before # Position(call.model)
    /\ Position(call.model) = InputPosition(call.model)

\* C2 as stated: after every updateExplosion on a non-null model, the first
\* one included, every vertex is at baseline + dir * factor.
C2_EveryUpdateDisplaces ==
    (call.op = "update" /\ OnModel)
        => /\ call.model \in DOMAIN explodedModels
           /\ Position(call.model) =
                  DisplacedFrom(explodedModels[call.model], call.factor)

\* C2 amended: after updateExplosion on a model that already had a snapshot,
\* every vertex is at baseline + dir * factor, dir a unit vector; the call
\* that finds no snapshot leaves the positions where they were.
C2_UpdateDisplacesFromBaseline ==
    (call.op = "update" /\ OnModel)
        => IF call.had
           THEN /\ Position(call.model) =
                       DisplacedFrom(explodedModels[call.model], call.factor)
                /\ UnitDirections(explodedModels[call.model])
           ELSE Position(call.model) = call.before

\* C2 witness: an update with a non-zero factor moved an initialized model.
C2_Witness ==
    /\ call.op = "update" /\ OnModel /\ call.had /\ call.factor > 0
    /\ Position(call.model) # explodedModels[call.model]

\* C3: updateExplosion on a model without a snapshot creates the snapshot from
\* the positions at the call and moves no vertex, whatever the factor.
C3_FirstUpdateOnlyInitializes ==
    (call.op = "update" /\ OnModel /\ ~call.had)
        => /\ call.model \in DOMAIN explodedModels
           /\ explodedModels[call.model] = call.before
           /\ Position(call.model) = call.before

\* C3 witness: a first update with factor 1.0.
C3_Witness ==
    /\ call.op = "update" /\ OnModel /\ ~call.had /\ call.factor = Unit
    /\ call.model \in DOMAIN explodedModels

\* C4: a snapshot keeps the positions captured at its creation for as long as
\* it exists, and initializeExplosion on an initialized model changes neither
\* the store nor the positions.
C4_SnapshotImmutable ==
    /\ DOMAIN captured = DOMAIN explodedModels
    /\ \A m \in DOMAIN explodedModels : explodedModels[m] = captured[m]
    /\ (call.op = "initialize" /\ OnModel /\ call.had)
           => Position(call.model) = call.before

\* C4 witness: initializeExplosion was called on a displaced model.
C4_Witness ==
    /\ call.op = "initialize" /\ OnModel /\ call.had
    /\ Displaced(call.model)

\* C8: initializeExplosion, updateExplosion, resetExplosion and
\* cleanupExplosionData called with a null model change neither the snapshot
\* store nor any model.
C8_NullIsNoOp ==
    [][(call'.model = NULL /\ call'.op \in {"initialize", "update", "reset", "cleanup"})
          => UNCHANGED <<explodedModels, offModels>>]_vars

\* C8 witness: a call with a null model while a displaced model is in the store.
C8_Witness ==
    /\ call.model = NULL /\ call.op \in {"initialize", "update", "reset", "cleanup"}
    /\ \E m \in Models : Displaced(m)

\* C9: resetExplosion on a non-null model without a snapshot changes neither
\* positions nor normals and creates no snapshot.
C9_ResetUninitializedIsNoOp ==
    [][(call'.op = "reset" /\ call'.model # NULL /\ ~call'.had)
          => UNCHANGED <<explodedModels, offModels>>]_vars

\* C9 witness: a reset of a model whose snapshot was released while displaced.
C9_Witness ==
    /\ call.op = "reset" /\ OnModel /\ ~call.had
    /\ call.model \in DOMAIN released
    /\ call.model \notin DOMAIN explodedModels

\* C10: cleanupExplosionData removes the snapshot and moves no vertex; the next
\* updateExplosion takes the positions it finds as the baseline; so after a
\* release while displaced, a reset brings the model to the displaced
\* positions, not to the input coordinates.
C10_ReleaseKeepsDisplacement ==
    /\ (call.op = "cleanup" /\ OnModel)
           => /\ call.model \notin DOMAIN explodedModels
              /\ Position(call.model) = call.before
    /\ (call.op = "update" /\ OnModel /\ ~call.had)
           => explodedModels[call.model] = call.before
    /\ (call.op = "reset" /\ OnModel /\ call.had /\ call.model \in DOMAIN released)
           => /\ Position(call.model) = released[call.model]
              /\ Position(call.model) # InputPosition(call.model)

\* C10 witness: released while displaced, updated again, then reset.
C10_Witness ==
    /\ call.op = "reset" /\ OnModel /\ call.had
    /\ call.model \in DOMAIN released
    /\ call.before # Position(call.model)
    /\ Position(call.model) = released[call.model]

\* C11: resetExplosion is idempotent: in every reachable state and for every
\* model pointer, a second resetExplosion right after a first one changes no
\* position, no normal and no snapshot.
C11_ResetIdempotent ==
    /\ \A model \in ModelPtrs :
           LET once == resetExplosion(Heap, model)
           IN  resetExplosion(once, model) = once
    /\ call.op = "reset" => resetExplosion(Heap, call.model) = Heap

\* C11 witness: a reset has just moved a displaced model; the state it left is
\* the one a second reset starts from.
C11_Witness ==
    /\ call.op = "reset" /\ OnModel /\ call.had
    /\ call.before # Position(call.model)
    /\ call.model \in DOMAIN explodedModels
    /\ resetExplosion(Heap, call.model) = Heap

\* C12: updateExplosion(model, 0.0) right after initializeExplosion(model)
\* leaves every vertex at its pre-explosion baseline, and so does every
\* update with factor 0.0 on a model that has a snapshot.
C12_ZeroFactorKeepsBaseline ==
    /\ (call.op = "initialize" /\ OnModel)
           => LET after == updateExplosion(Heap, call.model, 0)
              IN  /\ after.offModels[call.model].position = captured[call.model]
                  /\ ~call.had => after.offModels[call.model].position = call.before
    /\ (call.op = "update" /\ OnModel /\ call.had /\ call.factor = 0)
           => Position(call.model) = captured[call.model]

\* C12 witness: an update with factor 0.0 ran on a model that stood at its
\* baseline, as it does right after initializeExplosion.
C12_Witness ==
    /\ call.op = "update" /\ OnModel /\ call.had /\ call.factor = 0
    /\ call.before = captured[call.model]
    /\ Position(call.model) = captured[call.model]

\* C18: updateExplosion on a model that has a snapshot puts a vertex whose
\* baseline is the explosion origin at baseline + (0, factor, 0).
C18_OriginVertexMovesUp ==
    (call.op = "update" /\ OnModel /\ call.had)
        => LET baseline == explodedModels[call.model]
           IN  \A i \in 1..Len(baseline) :
                   baseline[i] = Center(baseline)
                       => Position(call.model)[i] =
                              Add3(baseline[i], <<0, call.factor, 0>>)

\* C18 witness: an update with a non-zero factor lifted a vertex that sits on
\* the explosion origin.
C18_Witness ==
    /\ call.op = "update" /\ OnModel /\ call.had /\ call.factor > 0
    /\ \E i \in 1..Len(explodedModels[call.model]) :
           /\ explodedModels[call.model][i] = Center(explodedModels[call.model])
           /\ Position(call.model)[i] # explodedModels[call.model][i]

\* C19: when updateExplosion or resetExplosion returns from a model that has
\* a snapshot, the model's normals are the ones computeNormals gives for the
\* positions the call has left.
C19_NormalsFollowPositions ==
    (call.op \in {"update", "reset"} /\ OnModel /\ call.had)
        => offModels[call.model].normal =
               computeNormals(Position(call.model), offModels[call.model].polygons)

\* C19 witness: an update or a reset moved the vertices and the normals it left
\* are no longer the ones the Mesh constructor had computed.
C19_Witness ==
    /\ call.op \in {"update", "reset"} /\ OnModel /\ call.had
    /\ call.before # Position(call.model)
    /\ \E i \in 1..Len(offModels[call.model].normal) :
           offModels[call.model].normal[i] # meshes[call.model].vertices[i].normal

\* C22: on a model that has a snapshot, updateExplosion(m, f2) gives the same
\* positions whether or not an updateExplosion(m, f1) ran just before it:
\* displacements do not accumulate.
C22_UpdateForgetsEarlierFactors ==
    (call.op = "update" /\ OnModel /\ call.had)
        => LET model == call.model
               before == [Heap EXCEPT !.offModels[model].position = call.before]
           IN  \A f2 \in Factors :
                   updateExplosion(Heap, model, f2).offModels[model].position =
                       updateExplosion(before, model, f2).offModels[model].position

\* C22 witness: an update with a non-zero factor has just moved a model that
\* an earlier update had already displaced.
C22_Witness ==
    /\ call.op = "update" /\ OnModel /\ call.had /\ call.factor > 0
    /\ call.before # explodedModels[call.model]
    /\ call.before # Position(call.model)
    /\ Position(call.model) # explodedModels[call.model]

\* C25: no call of the explosion API changes a model's number of vertices,
\* its polygon list or the index buffer of its Mesh, and every snapshot has
\* as many entries as its model has vertices.
C25_TopologyUnchanged ==
    [][\A model \in Models :
           /\ offModels'[model].polygons = offModels[model].polygons
           /\ Len(offModels'[model].position) = Len(offModels[model].position)
           /\ Len(offModels'[model].normal) = Len(offModels[model].normal)
           /\ meshes'[model].indices = meshes[model].indices
           /\ model \in DOMAIN explodedModels'
                  => Len(explodedModels'[model]) = Len(offModels'[model].position)]_vars

\* C25 witness: an update has moved the vertices of a model whose snapshot
\* has one entry per vertex.
C25_Witness ==
    /\ call.op = "update" /\ OnModel /\ call.had
    /\ call.before # Position(call.model)
    /\ Len(explodedModels[call.model]) = Len(Position(call.model))
    /\ meshes[call.model].indices = Triangulate(offModels[call.model].polygons, 1)

\* C26: initializeExplosion, updateExplosion, resetExplosion and
\* cleanupExplosionData called on one model leave every other model's
\* vertices, normals and snapshot entry as they were; the store is keyed by
\* model, one entry each.
C26_ModelsIsolated ==
    [][/\ \A other \in Models :
              (call'.op \in {"initialize", "update", "reset", "cleanup"}
                   /\ call'.model # other)
                  => /\ offModels'[other] = offModels[other]
                     /\ other \in DOMAIN explodedModels' <=> other \in DOMAIN explodedModels
                     /\ other \in DOMAIN explodedModels
                            => explodedModels'[other] = explodedModels[other]
       /\ DOMAIN explodedModels' \subseteq Models]_vars

\* C26 witness: a call has moved one model or dropped its snapshot while
\* another model stood displaced with a snapshot of its own.
C26_Witness ==
    /\ call.op \in {"update", "reset", "cleanup"} /\ OnModel /\ call.had
    /\ \/ call.before # Position(call.model)
       \/ call.model \notin DOMAIN explodedModels
    /\ \E other \in Models \ {call.model} :
           /\ other \in DOMAIN explodedModels
           /\ Position(other) # explodedModels[other]

------------------------------------------------------------------------------
(* main.cpp: the driver                                                      *)

\* Frame times glfwGetTime can produce between two frames, in ticks, and the
\* values the "Explode Factor" slider can be dragged to.
DeltaTimes == {0, 3, 7, 12}
SliderValues == 0..Unit

\* The animation block without its upper clamp: explodeFactor only turns
\* around once it has passed 1.0.
AnimationStepNoUpperClamp(factor, direction, deltaTime) ==
    LET advanced == factor + direction * deltaTime
    IN  IF advanced > Unit
        THEN [explodeFactor |-> advanced, explodeDirection |-> -1, explodeAnimation |-> TRUE]
        ELSE IF advanced < 0
        THEN [explodeFactor |-> 0, explodeDirection |-> 1, explodeAnimation |-> FALSE]
        ELSE [explodeFactor |-> advanced, explodeDirection |-> direction,
              explodeAnimation |-> TRUE]

\* The animation block turning around at the lower end as it does at the
\* upper one, explodeAnimation left set.
AnimationStepPingPong(factor, direction, deltaTime) ==
    LET advanced == factor + direction * deltaTime
    IN  IF advanced > Unit
        THEN [explodeFactor |-> Unit, explodeDirection |-> -1, explodeAnimation |-> TRUE]
        ELSE IF advanced < 0
        THEN [explodeFactor |-> 0, explodeDirection |-> 1, explodeAnimation |-> TRUE]
        ELSE [explodeFactor |-> advanced, explodeDirection |-> direction,
              explodeAnimation |-> TRUE]

\* The animation block of the render loop, before the call: explodeFactor
\* advanced by explodeDirection * deltaTime and clamped at both ends.
AnimationStep(factor, direction, deltaTime) ==
    LET advanced == factor + direction * deltaTime
    IN  IF advanced > Unit
        THEN [explodeFactor |-> Unit, explodeDirection |-> -1, explodeAnimation |-> TRUE]
        ELSE IF advanced < 0
        THEN [explodeFactor |-> 0, explodeDirection |-> 1, explodeAnimation |-> FALSE]
        ELSE [explodeFactor |-> advanced, explodeDirection |-> direction,
              explodeAnimation |-> TRUE]

\* explodeFactor > 0.5f ? -1.0f : 1.0f
StartDirection(factor) == IF 2 * factor > Unit THEN -1 ELSE 1

\* if (offModel) initializeExplosion(offModel);
mainInitialize(h, ptr) == IF ptr # NULL THEN initializeExplosion(h, ptr) ELSE h

\* if (offModel) updateExplosion(offModel, explodeFactor);
mainUpdate(h, ptr, factor) == IF ptr # NULL THEN updateExplosion(h, ptr, factor) ELSE h

\* The N key without its resetExplosion call: only explodeFactor is cleared.
keyResetSkipped(h, ptr) == h

\* key_callback: if (offModel) { resetExplosion(offModel); ... }
keyReset(h, ptr) == IF ptr # NULL THEN resetExplosion(h, ptr) ELSE h

\* The end of main without its resetExplosion call.
mainResetSkipped(h, ptr) == h

\* The end of main: if (offModel) { resetExplosion(offModel); ... }
mainReset(h, ptr) == IF ptr # NULL THEN resetExplosion(h, ptr) ELSE h

\* if (offModel) { ... cleanupExplosionData(offModel); }
mainCleanup(h, ptr) == IF ptr # NULL THEN cleanupExplosionData(h, ptr) ELSE h

\* main returning right after the render loop's reset, its cleanup calls left out.
EpilogueWithoutCleanup(at) ==
    CASE at = "frame" -> "reset"
      [] at = "reset" -> "return"
      [] OTHER -> "exit"

\* The statements of main after the render loop, in program order: the
\* reset, the two cleanup calls, then the return that destroys the Mesh.
Epilogue(at) ==
    CASE at = "frame" -> "reset"
      [] at = "reset" -> "cleanup"
      [] at = "cleanup" -> "cleanupAll"
      [] at = "cleanupAll" -> "return"
      [] OTHER -> "exit"

\* The history of a call the driver makes through its offModel pointer.
DriverCall(op, ptr, h0, h, factor) ==
    /\ CommitFrom(h0, h)
    /\ call' = IF ptr # NULL THEN CallIn(h0, op, ptr, factor) ELSE NoCall

NoDriverCall ==
    /\ call' = NoCall
    /\ UNCHANGED <<offModels, explodedModels, captured, released>>

DriverInit ==
    /\ offModels = EmptyMap
    /\ meshes = EmptyMap
    /\ explodedModels = EmptyMap
    /\ offModel = NULL
    /\ explodeFactor = 0
    /\ explodeAnimation = FALSE
    /\ explodeDirection = 1
    /\ showImGuiWindow = TRUE
    /\ vbo = <<>>
    /\ pc = "load"
    /\ call = NoCall
    /\ captured = EmptyMap
    /\ released = EmptyMap
    /\ drift = 0
    /\ opened = <<>>
    /\ input = EmptyMap

\* Mesh mesh(meshFilename); mesh.setupMesh(); offModel = mesh.getOffModel();
\* initializeExplosion(offModel): the file loads and the model is allocated
\* at some address.
LoadMesh(ptr, file) ==
    /\ pc = "load"
    /\ ~MeshThrows(file)
    /\ LET off == readOffFile(file)
           loaded == [explodedModels |-> explodedModels,
                      offModels |-> MapPut(offModels, ptr, LoadedOffModel(off))]
       IN  /\ DriverCall("initialize", ptr, loaded, mainInitialize(loaded, ptr), 0)
           /\ meshes' = MapPut(meshes, ptr, MeshOf(off))
           /\ vbo' = MeshOf(off).vertices
           /\ input' = MapPut(input, ptr, off.vertices)
    /\ offModel' = ptr
    /\ pc' = "frame"
    /\ opened' = Append(opened, file)
    /\ UNCHANGED <<explodeFactor, explodeAnimation, explodeDirection,
                   showImGuiWindow, drift>>

\* readOffFile returns null: the Mesh constructor throws and nothing in main
\* catches it.
LoadFails(file) ==
    /\ pc = "load"
    /\ MeshThrows(file)
    /\ pc' = "terminated"
    /\ NoDriverCall
    /\ opened' = Append(opened, file)
    /\ UNCHANGED <<meshes, offModel, explodeFactor, explodeAnimation,
                   explodeDirection, showImGuiWindow, vbo, drift, input>>

\* The head of one render-loop iteration: frame time and the animation block.
FrameUpdate(deltaTime) ==
    /\ pc = "frame"
    /\ IF explodeAnimation
       THEN LET step == AnimationStep(explodeFactor, explodeDirection, deltaTime)
            IN  /\ explodeFactor' = step.explodeFactor
                /\ explodeDirection' = step.explodeDirection
                /\ explodeAnimation' = step.explodeAnimation
                /\ DriverCall("update", offModel, Heap,
                              mainUpdate(Heap, offModel, step.explodeFactor),
                              step.explodeFactor)
       ELSE /\ NoDriverCall
            /\ UNCHANGED <<explodeFactor, explodeDirection, explodeAnimation>>
    /\ pc' = "imgui"
    /\ UNCHANGED <<meshes, offModel, showImGuiWindow, vbo, drift, input, opened>>

\* The control panel is hidden, or shown and left alone.
ImGuiIdle ==
    /\ pc = "imgui"
    /\ pc' = "draw"
    /\ NoDriverCall
    /\ UNCHANGED <<meshes, offModel, explodeFactor, explodeAnimation,
                   explodeDirection, showImGuiWindow, vbo, drift, input, opened>>

\* The "Explode View" button is clicked.
ImGuiButton ==
    /\ pc = "imgui"
    /\ showImGuiWindow
    /\ explodeAnimation' = TRUE
    /\ explodeDirection' = StartDirection(explodeFactor)
    /\ pc' = "draw"
    /\ NoDriverCall
    /\ UNCHANGED <<meshes, offModel, explodeFactor, showImGuiWindow, vbo, drift, input, opened>>

\* The "Explode Factor" slider is moved to a value.
ImGuiSlider(value) ==
    /\ pc = "imgui"
    /\ showImGuiWindow
    /\ value # explodeFactor
    /\ explodeFactor' = value
    /\ DriverCall("update", offModel, Heap, mainUpdate(Heap, offModel, value), value)
    /\ pc' = "draw"
    /\ UNCHANGED <<meshes, offModel, explodeAnimation, explodeDirection,
                   showImGuiWindow, vbo, drift, input, opened>>

\* mesh.Draw(shader): the GPU buffer is drawn as it is.
Draw ==
    /\ pc = "draw"
    /\ pc' = "poll"
    /\ NoDriverCall
    /\ UNCHANGED <<meshes, offModel, explodeFactor, explodeAnimation,
                   explodeDirection, showImGuiWindow, vbo, drift, input, opened>>

\* key_callback, GLFW_KEY_B, delivered by glfwPollEvents.
KeyB ==
    /\ pc = "poll"
    /\ explodeAnimation' = TRUE
    /\ explodeDirection' = StartDirection(explodeFactor)
    /\ NoDriverCall
    /\ UNCHANGED <<meshes, offModel, explodeFactor, showImGuiWindow, vbo, pc, drift, input, opened>>

\* key_callback, GLFW_KEY_N.
KeyN ==
    /\ pc = "poll"
    /\ DriverCall("reset", offModel, Heap, keyReset(Heap, offModel), 0)
    /\ explodeFactor' = IF offModel # NULL THEN 0 ELSE explodeFactor
    /\ UNCHANGED <<meshes, offModel, explodeAnimation, explodeDirection,
                   showImGuiWindow, vbo, pc, drift, input, opened>>

\* key_callback, GLFW_KEY_TAB.
KeyTab ==
    /\ pc = "poll"
    /\ showImGuiWindow' = ~showImGuiWindow
    /\ NoDriverCall
    /\ UNCHANGED <<meshes, offModel, explodeFactor, explodeAnimation,
                   explodeDirection, vbo, pc, drift, input, opened>>

\* glfwPollEvents returns and the loop goes round.
NextFrame ==
    /\ pc = "poll"
    /\ pc' = "frame"
    /\ NoDriverCall
    /\ UNCHANGED <<meshes, offModel, explodeFactor, explodeAnimation,
                   explodeDirection, showImGuiWindow, vbo, drift, input, opened>>

\* glfwWindowShouldClose(window) is true: the loop ends.
WindowClose ==
    /\ pc = "frame"
    /\ pc' = Epilogue(pc)
    /\ NoDriverCall
    /\ UNCHANGED <<meshes, offModel, explodeFactor, explodeAnimation,
                   explodeDirection, showImGuiWindow, vbo, drift, input, opened>>

\* resetExplosion(offModel) at the end of main.
ShutdownReset ==
    /\ pc = "reset"
    /\ DriverCall("reset", offModel, Heap, mainReset(Heap, offModel), 0)
    /\ pc' = Epilogue(pc)
    /\ UNCHANGED <<meshes, offModel, explodeFactor, explodeAnimation,
                   explodeDirection, showImGuiWindow, vbo, drift, input, opened>>

\* cleanupExplosionData(offModel) at the end of main.
ShutdownCleanup ==
    /\ pc = "cleanup"
    /\ DriverCall("cleanup", offModel, Heap, mainCleanup(Heap, offModel), 0)
    /\ pc' = Epilogue(pc)
    /\ UNCHANGED <<meshes, offModel, explodeFactor, explodeAnimation,
                   explodeDirection, showImGuiWindow, vbo, drift, input, opened>>

\* cleanupAllExplosionData() at the end of main.
ShutdownCleanupAll ==
    /\ pc = "cleanupAll"
    /\ CommitFrom(Heap, cleanupAllExplosionData(Heap))
    /\ call' = CallOf("cleanupAll", NULL, 0)
    /\ pc' = Epilogue(pc)
    /\ UNCHANGED <<meshes, offModel, explodeFactor, explodeAnimation,
                   explodeDirection, showImGuiWindow, vbo, drift, input, opened>>

\* return 0: the Mesh goes out of scope and ~Mesh frees its OffModel.
DestroyMesh ==
    /\ pc = "return"
    /\ offModels' = MapErase(offModels, offModel)
    /\ meshes' = MapErase(meshes, offModel)
    /\ call' = NoCall
    /\ pc' = Epilogue(pc)
    /\ UNCHANGED <<explodedModels, captured, released, offModel, explodeFactor,
                   explodeAnimation, explodeDirection, showImGuiWindow, vbo, drift, input, opened>>

DriverNext ==
    \/ \E ptr \in Models, file \in ViewerFiles : LoadMesh(ptr, file)
    \/ \E file \in ViewerFiles : LoadFails(file)
    \/ \E deltaTime \in DeltaTimes : FrameUpdate(deltaTime)
    \/ ImGuiIdle
    \/ ImGuiButton
    \/ \E value \in SliderValues : ImGuiSlider(value)
    \/ Draw
    \/ KeyB
    \/ KeyN
    \/ KeyTab
    \/ NextFrame
    \/ WindowClose
    \/ ShutdownReset
    \/ ShutdownCleanup
    \/ ShutdownCleanupAll
    \/ DestroyMesh

DriverSpec == DriverInit /\ [][DriverNext]_vars

------------------------------------------------------------------------------
(* The Mesh constructor, statement by statement, on any file                 *)

\* The most sides a polygon line has and the most polygon lines a file has.
MaxSides == 4
MaxPolygons == 2

\* Five vertices, no three of them on a line.
PentaVertices ==
    << <<0, 0, 0>>, <<8, 0, 0>>, <<0, 8, 0>>, <<0, 0, 8>>, <<8, 8, 8>> >>

\* A polygon line of n sides: consecutive vertex indices from first on,
\* wrapping around, its last entry one past the last vertex when outOfRange.
PolygonLine(n, first, outOfRange) ==
    [k \in 1..n |->
        IF outOfRange /\ k = n
        THEN Len(PentaVertices)
        ELSE (first + k - 1) % Len(PentaVertices)]

PolygonLines ==
    {PolygonLine(n, first, outOfRange) :
        n \in 0..MaxSides, first \in {0, 2}, outOfRange \in BOOLEAN}

\* A file whose first face has its three vertices on one line, a triangle
\* of no area, whose second face is a proper triangle and whose last vertex
\* belongs to no face.
FlatTriangleFile ==
    OffFile([ vertices |-> << <<0, 0, 0>>, <<4, 0, 0>>, <<8, 0, 0>>,
                              <<0, 8, 0>>, <<0, 0, 8>> >>,
              polygons |-> << <<0, 1, 2>>, <<0, 2, 3>> >> ])

\* The files a Mesh is constructed from: the viewer's, and every well-formed
\* file of the five vertices and up to MaxPolygons polygon lines.
ConstructorFiles ==
    ViewerFiles \cup {FlatTriangleFile} \cup
    {OffFile([vertices |-> PentaVertices, polygons |-> polygons]) :
        polygons \in UNION {[1..len -> PolygonLines] : len \in 1..MaxPolygons}}

\* Every entry of an index buffer is an index into count vertices.
ValidIndices(indices, count) ==
    \A k \in 1..Len(indices) : 0 <= indices[k] /\ indices[k] < count

\* What a normal can hold once calculateNormals has read and written outside
\* Mesh::vertices.
Garbage == {Zero3, <<Unit, 0, 0>>}

meshIdle == <<explodedModels, offModel, explodeFactor, explodeAnimation,
              explodeDirection, showImGuiWindow, vbo, call, captured,
              released, drift>>

MeshInit ==
    /\ DriverInit
    /\ pc = "load"

\* Mesh(filename): readOffFile returns null and the constructor throws.
ConstructThrows(file) ==
    /\ pc = "load"
    /\ MeshThrows(file)
    /\ pc' = "thrown"
    /\ opened' = Append(opened, file)
    /\ UNCHANGED <<offModels, meshes, input, meshIdle>>

\* Mesh(filename): readOffFile returns a model, allocated at some address.
ConstructReads(ptr, file) ==
    /\ pc = "load"
    /\ ~MeshThrows(file)
    /\ LET off == readOffFile(file)
       IN  /\ offModels' = MapPut(offModels, ptr,
                               [ position |-> off.vertices,
                                 normal |-> [i \in 1..Len(off.vertices) |-> Zero3],
                                 polygons |-> off.polygons ])
           /\ input' = MapPut(input, ptr, off.vertices)
    /\ meshes' = MapPut(meshes, ptr, [vertices |-> <<>>, indices |-> <<>>])
    /\ pc' = "vertices"
    /\ opened' = Append(opened, file)
    /\ UNCHANGED meshIdle

\* "Process vertices": one MeshVertex per vertex of the model, normal zero.
ProcessVertices(ptr) ==
    /\ pc = "vertices"
    /\ ptr \in DOMAIN meshes
    /\ meshes' = [meshes EXCEPT ![ptr].vertices =
                     [i \in 1..Len(offModels[ptr].position) |->
                         [position |-> offModels[ptr].position[i], normal |-> Zero3]]]
    /\ pc' = "faces"
    /\ UNCHANGED <<offModels, input, opened, meshIdle>>

\* "Process faces and create indices": the two triangulation loops.
ProcessFaces(ptr) ==
    /\ pc = "faces"
    /\ ptr \in DOMAIN meshes
    /\ meshes' = [meshes EXCEPT ![ptr].indices =
                     Triangulate(offModels[ptr].polygons, 1)]
    /\ pc' = "normals"
    /\ UNCHANGED <<offModels, input, opened, meshIdle>>

\* calculateNormals() on an index buffer that stays inside Mesh::vertices;
\* the normals it normalized are copied into the OffModel.
CalculateNormals(ptr) ==
    /\ pc = "normals"
    /\ ptr \in DOMAIN meshes
    /\ ValidIndices(meshes[ptr].indices, Len(meshes[ptr].vertices))
    /\ LET normal == calculateNormals(offModels[ptr].position, meshes[ptr].indices)
       IN  /\ meshes' = [meshes EXCEPT ![ptr].vertices =
                            [i \in 1..Len(@) |-> [@[i] EXCEPT !.normal = normal[i]]]]
           /\ offModels' = [offModels EXCEPT ![ptr].normal =
                               [i \in 1..Len(@) |->
                                   IF AboveEpsilon(Length3(normal[i]))
                                   THEN normal[i] ELSE @[i]]]
    /\ pc' = "constructed"
    /\ UNCHANGED <<input, opened, meshIdle>>

\* calculateNormals() on an index buffer with an entry outside Mesh::vertices:
\* vertices[idx] reads and writes memory the vector does not own. The program
\* is killed there, or runs on with normals that hold anything.
CalculateNormalsOutOfRange(ptr, killed, normal) ==
    /\ pc = "normals"
    /\ ptr \in DOMAIN meshes
    /\ ~ValidIndices(meshes[ptr].indices, Len(meshes[ptr].vertices))
    /\ IF killed
       THEN /\ pc' = "crashed"
            /\ UNCHANGED <<meshes, offModels>>
       ELSE /\ pc' = "constructed"
            /\ meshes' = [meshes EXCEPT ![ptr].vertices =
                             [i \in 1..Len(@) |-> [@[i] EXCEPT !.normal = normal]]]
            /\ offModels' = [offModels EXCEPT ![ptr].normal =
                                [i \in 1..Len(@) |-> normal]]
    /\ UNCHANGED <<input, opened, meshIdle>>

\* The file is chosen where the constructor is entered, and nowhere else.
MeshNext ==
    \/ pc = "load" /\ \E file \in ConstructorFiles : ConstructThrows(file)
    \/ pc = "load" /\ \E ptr \in Models, file \in ConstructorFiles :
                          ConstructReads(ptr, file)
    \/ \E ptr \in Models : ProcessVertices(ptr)
    \/ \E ptr \in Models : ProcessFaces(ptr)
    \/ \E ptr \in Models : CalculateNormals(ptr)
    \/ \E ptr \in Models, killed \in BOOLEAN, normal \in Garbage :
           CalculateNormalsOutOfRange(ptr, killed, normal)

MeshSpec == MeshInit /\ [][MeshNext]_vars

------------------------------------------------------------------------------
(* Properties of the driver                                                  *)

\* C5: every key of the snapshot store is a live OffModel; when the Mesh
\* destructor frees the model the store holds no entry for it.
C5_SnapshotKeysAreLive == DOMAIN explodedModels \subseteq DOMAIN offModels

\* C5 witness: the Mesh has been destroyed and its model freed.
C5_Witness ==
    /\ pc = "exit"
    /\ offModel # NULL /\ offModel \notin DOMAIN offModels
    /\ offModel \in DOMAIN input

\* C6: whenever a snapshot leaves the store, its model's vertices are at the
\* baseline that snapshot held.
C6_ReleasedAtBaseline ==
    [][\A m \in DOMAIN explodedModels \ DOMAIN explodedModels' :
           /\ m \in DOMAIN offModels'
           /\ offModels'[m].position = explodedModels[m]]_vars

\* C6 witness: the window was closed with the model exploded and the snapshot
\* has just been released.
C6_Witness ==
    /\ pc = "cleanupAll"
    /\ call.op = "cleanup" /\ call.had
    /\ explodeFactor > 0
    /\ call.model \notin DOMAIN explodedModels
    /\ Position(call.model) = InputPosition(call.model)

\* C7: at every draw, the positions in Mesh::vertices and in the uploaded
\* vertex buffer are the model's current vertex positions.
C7_BufferFollowsModel ==
    pc = "draw" =>
        /\ MeshPosition(offModel) = Position(offModel)
        /\ [i \in 1..Len(vbo) |-> vbo[i].position] = Position(offModel)

\* C13: every factor the driver passes to updateExplosion lies in [0, 1], and
\* so does explodeFactor between two steps of the driver.
C13_FactorInRange ==
    /\ 0 <= explodeFactor /\ explodeFactor <= Unit
    /\ call.op = "update" => (0 <= call.factor /\ call.factor <= Unit)

\* C13 witness: the animation has reached the upper end and turned around:
\* the render loop called updateExplosion with factor 1.0.
C13_Witness ==
    /\ pc = "imgui"
    /\ call.op = "update" /\ call.factor = Unit
    /\ explodeAnimation /\ explodeDirection = -1

\* The cross product (b - a) x (c - a) of the triangle that starts at entry
\* i of an index buffer.
TriangleCross(position, indices, i) ==
    Cross3(Sub3(position[indices[i + 1] + 1], position[indices[i] + 1]),
           Sub3(position[indices[i + 2] + 1], position[indices[i] + 1]))

\* The number of corners of the triangle at entry i that are vertex v.
Corners(indices, i, v) ==
    Cardinality({k \in i..(i + 2) : indices[k] + 1 = v})

\* What one vertex has accumulated before the final normalization: over every
\* triangle from entry i on, once per corner at v, the triangle's cross
\* product, made a unit vector first when unitFaces is set.
RECURSIVE Accumulated(_, _, _, _, _)
Accumulated(position, indices, v, i, unitFaces) ==
    IF i + 2 <= Len(indices)
    THEN LET cross == TriangleCross(position, indices, i)
             face == IF unitFaces THEN Normalize3(cross) ELSE cross
         IN  Add3(Scale3(face, Corners(indices, i, v) * Unit),
                  Accumulated(position, indices, v, i + 3, unitFaces))
    ELSE Zero3

\* The final pass: Normalized when longer than the epsilon, else left alone.
Finished(sum) == IF AboveEpsilon(Length3(sum)) THEN Normalize3(sum) ELSE sum

\* The normals Mesh::vertices holds for a model.
MeshNormal(model) ==
    [i \in 1..Len(meshes[model].vertices) |-> meshes[model].vertices[i].normal]

C17_FailedLoadStopsTheViewer ==
    (opened # <<>> /\ readOffFileFails(opened[1]))
        => /\ pc = "terminated"
           /\ meshes = EmptyMap /\ vbo = <<>>
           /\ offModels = EmptyMap /\ offModel = NULL
           /\ explodedModels = EmptyMap /\ captured = EmptyMap
           /\ call = NoCall
           /\ explodeFactor = 0 /\ ~explodeAnimation

\* C17 witness: the viewer was started on a cut-off file and the constructor
\* has thrown.
C17_Witness ==
    /\ opened = <<TruncatedFile>>
    /\ readOffFileFails(opened[1])
    /\ pc = "terminated"

\* main is inside its render loop.
InRenderLoop == pc \in {"frame", "imgui", "draw", "poll"}

\* C23: wherever the driver stands in its render loop, the loaded model has
\* its snapshot, taken from the file's coordinates, and every vertex is at
\* baseline + dir * explodeFactor, which is the baseline when explodeFactor
\* is 0.
C23_PositionsFollowFactor ==
    (InRenderLoop /\ offModel # NULL)
        => /\ offModel \in DOMAIN explodedModels
           /\ explodedModels[offModel] = InputPosition(offModel)
           /\ Position(offModel) =
                  DisplacedFrom(explodedModels[offModel], explodeFactor)
           /\ explodeFactor = 0 => Position(offModel) = InputPosition(offModel)

\* C23 witness: the N key was pressed while the animation was running and
\* the model displaced; the model is back at its baseline and explodeFactor
\* is 0, the animation still on.
C23_Witness ==
    /\ pc = "poll" /\ explodeAnimation
    /\ call.op = "reset" /\ OnModel /\ call.had
    /\ call.before # Position(call.model)
    /\ explodeFactor = 0

------------------------------------------------------------------------------
(* The driver left alone while its animation runs                            *)

\* The head of a frame that takes time: glfwGetTime has advanced.
FrameStep == \E deltaTime \in DeltaTimes \ {0} : FrameUpdate(deltaTime)

\* One step of the render loop with a positive frame time.
LoopStep ==
    \/ FrameStep
    \/ ImGuiIdle
    \/ Draw
    \/ NextFrame

\* The driver with no key, button, slider or close request arriving while
\* explodeAnimation is set, and every frame of the animation taking time.
QuietNext ==
    \/ ~explodeAnimation /\ DriverNext
    \/ explodeAnimation /\ LoopStep

\* Frames keep running: the render loop is single-threaded and blocks
\* nowhere, so it never stays at a step it can take. The last conjunct is
\* WF_vars(FrameStep) written out, ENABLED <<FrameStep>>_vars being
\* pc = "frame".
QuietFairness ==
    /\ WF_vars(ImGuiIdle)
    /\ WF_vars(Draw)
    /\ WF_vars(NextFrame)
    /\ []<>(pc # "frame") \/ []<><<FrameStep>>_vars

QuietSpec == DriverInit /\ [][QuietNext]_vars /\ QuietFairness

\* The animation is over and the model back where it was loaded.
AnimationStopped ==
    /\ ~explodeAnimation
    /\ explodeFactor = 0
    /\ explodeDirection = 1
    /\ offModel \in DOMAIN offModels
    /\ Position(offModel) = InputPosition(offModel)

\* C24: once the animation is started, with frames running on positive frame
\* times and no further input, a state follows in which explodeAnimation is
\* false, explodeFactor is 0, explodeDirection is +1 and the model is at its
\* baseline.
C24_AnimationStops == explodeAnimation ~> AnimationStopped

\* C24 witness: the frame that took explodeFactor below 0 has ended an
\* animation: its updateExplosion(offModel, 0.0) has just put the model back.
C24_Witness ==
    /\ pc = "imgui"
    /\ AnimationStopped
    /\ call.op = "update" /\ call.factor = 0 /\ call.had
    /\ call.before # Position(call.model)

------------------------------------------------------------------------------
(* Properties of the Mesh constructor                                        *)

\* The triangles the polygon lines before line k account for, a line of n
\* sides counting for n - 2 when n >= 3 and for none otherwise.
RECURSIVE TrianglesBefore(_, _)
TrianglesBefore(polygons, k) ==
    IF k <= 1 THEN 0
    ELSE LET n == Len(polygons[k - 1])
         IN  TrianglesBefore(polygons, k - 1) + (IF n >= 3 THEN n - 2 ELSE 0)

\* The face loop of the constructor has run.
FacesProcessed == pc \in {"normals", "constructed", "crashed"}

\* C14: once the face loop has run, every polygon v[0..n) with n >= 3 has
\* exactly n - 2 triangles in the index buffer, the i-th being
\* (v[0], v[i], v[i+1]), in polygon order; the buffer holds three entries per
\* triangle and nothing else, so its length is a multiple of 3.
C14_FanTriangulation ==
    FacesProcessed =>
        \A ptr \in DOMAIN meshes :
            LET polygons == offModels[ptr].polygons
                indices == meshes[ptr].indices
            IN  /\ Len(indices) = 3 * TrianglesBefore(polygons, Len(polygons) + 1)
                /\ Len(indices) % 3 = 0
                /\ \A k \in 1..Len(polygons) :
                       LET v == polygons[k]
                           at == 3 * TrianglesBefore(polygons, k)
                       IN  Len(v) >= 3 =>
                               \A i \in 1..(Len(v) - 2) :
                                   SubSeq(indices, at + 3 * i - 2, at + 3 * i) =
                                       <<v[1], v[i + 1], v[i + 2]>>

\* C14 witness: a Mesh has been constructed from a file whose first line is a
\* triangle and whose second has more than three sides, the index buffer
\* holding the triangles of both.
C14_Witness ==
    /\ pc = "constructed"
    /\ \E ptr \in DOMAIN meshes :
           /\ Len(offModels[ptr].polygons) = 2
           /\ Len(offModels[ptr].polygons[1]) = 3
           /\ Len(offModels[ptr].polygons[2]) > 3
           /\ Len(meshes[ptr].indices) = 3 * (Len(offModels[ptr].polygons[2]) - 1)

\* C15: once a Mesh is constructed, every entry of its index buffer is an
\* index into its vertex buffer.
C15_IndicesValid ==
    pc = "constructed" =>
        \A ptr \in DOMAIN meshes :
            ValidIndices(meshes[ptr].indices, Len(meshes[ptr].vertices))

\* C16: a file with a polygon line of fewer than 3 sides never gets past the
\* face loop of the constructor: the construction fails there.
C16_DegeneratePolygonRejected ==
    (/\ opened # <<>>
     /\ \E k \in 1..Len(opened[1].polygons) : Len(opened[1].polygons[k]) < 3)
        => ~FacesProcessed


\* A normal of unit length, to the tick.
IsUnit3(a) ==
    /\ ~IsNaN3(a)
    /\ Unit - 1 <= Length3(a) /\ Length3(a) <= Unit + 1

\* C21: once calculateNormals has run in the constructor, every normal in
\* Mesh::vertices is of unit length or is exactly the zero vector.
C21_NormalsUnitOrZero ==
    pc = "constructed" =>
        \A ptr \in DOMAIN meshes :
            ValidIndices(meshes[ptr].indices, Len(meshes[ptr].vertices))
                => \A v \in 1..Len(meshes[ptr].vertices) :
                       \/ MeshNormal(ptr)[v] = Zero3
                       \/ IsUnit3(MeshNormal(ptr)[v])

====
